---- MODULE Spec2Model ----
(***************************************************************************)
(* The PvPool reconciler (controllers/pvpool_controller.go) as a state     *)
(* machine.  A Reconcile for the pool is a process: it advances by one     *)
(* call to the API server or to a storage agent at a time, and between two *)
(* of its calls the environment moves: the pool's owner, the StatefulSet   *)
(* controller, the garbage collector, the pods and their storage agents.   *)
(* The computation between two calls is part of the step that ends with    *)
(* the later call.  One Reconcile runs at a time (the controller's queue    *)
(* hands a key to one worker).                                             *)
(*                                                                         *)
(* The environment is taken in parts, one specification each: agents that  *)
(* get ready and fall back (Spec), agents that take to decommissioning     *)
(* (DownSpec), a labelled pod outside the statefulset (StraySpec,          *)
(* WrapSpec), pools edited, deleted and created again (LifeSpec), and one  *)
(* pool under fairness (LiveSpec).                                         *)
(*                                                                         *)
(* PvPoolStatus.Used (the utilization percentage) is not part of the       *)
(* modelled status.                                                        *)
(***************************************************************************)
EXTENDS Integers, Sequences, FiniteSets, TLC

\* Largest pool size (Spec.NumPVs, StatefulSet replicas, number of ordinals).
MaxSize == 2

\* The largest desired size of the pool under fairness.
LiveSize == 1

\* ------------------------------------------------------------------ values

PvPoolPhaseUnknown == "Unknown"
PvPoolPhaseScaling == "Scaling"
PvPoolPhaseReady == "Ready"

PvPodStatusUnknown == "Unknown"
PvPodStatusReady == "Ready"
PvPodStatusDecommissioning == "Decommissioning"
PvPodStatusDecommissioned == "Decommissioned"

PodStates ==
    {PvPodStatusUnknown, PvPodStatusReady,
     PvPodStatusDecommissioning, PvPodStatusDecommissioned}

\* No pod under a name.
Absent == "<absent>"

\* ------------------------------------------------------------------- names
\* Names are sequences of characters, so that the parse of a pod's instance
\* number is computed, not assumed.

PoolName == <<"p">>

getPvPoolStatefulsetName(poolName) == poolName \o <<"-", "s", "t", "s">>

StsName == getPvPoolStatefulsetName(PoolName)

DigitChars == <<"0", "1", "2", "3", "4", "5", "6", "7", "8", "9">>

IsDigit(c) == \E k \in 1..10 : DigitChars[k] = c

DigitVal(c) == (CHOOSE k \in 1..10 : DigitChars[k] = c) - 1

RECURSIVE Itoa(_)
Itoa(n) == IF n < 10 THEN <<DigitChars[n + 1]>>
           ELSE Itoa(n \div 10) \o <<DigitChars[(n % 10) + 1]>>

\* The name the StatefulSet controller gives replica i.
PodName(i) == StsName \o <<"-">> \o Itoa(i)

\* strings.TrimPrefix
HasPrefix(p, pre) == Len(p) >= Len(pre) /\ SubSeq(p, 1, Len(pre)) = pre

TrimPrefix(p, pre) == IF HasPrefix(p, pre) THEN SubSeq(p, Len(pre) + 1, Len(p)) ELSE p

\* ---------------------------------------------------------------- integers
\* A Go int (64 bits) is held as a sign and a decimal numeral without leading
\* zeros, so that numbers beyond the model checker's own integers keep their
\* value; zero has no sign.

Numeral(n) == Itoa(n)

GoInt(neg, mag) == [neg |-> neg /\ mag # Numeral(0), mag |-> mag]

RECURSIVE StripZeros(_)
StripZeros(s) ==
    IF Len(s) > 1 /\ Head(s) = "0" THEN StripZeros(Tail(s)) ELSE s

\* a < b for two numerals of the same length
RECURSIVE DigitsLess(_, _)
DigitsLess(a, b) ==
    IF a = <<>> THEN FALSE
    ELSE IF Head(a) # Head(b) THEN DigitVal(Head(a)) < DigitVal(Head(b))
    ELSE DigitsLess(Tail(a), Tail(b))

\* a < b for two numerals without leading zeros
NumeralLess(a, b) ==
    Len(a) < Len(b) \/ (Len(a) = Len(b) /\ DigitsLess(a, b))

\* The magnitudes of the largest and of the smallest int64.
MaxInt64 ==
    <<"9", "2", "2", "3", "3", "7", "2", "0", "3", "6",
      "8", "5", "4", "7", "7", "5", "8", "0", "7">>

MinInt64 ==
    <<"9", "2", "2", "3", "3", "7", "2", "0", "3", "6",
      "8", "5", "4", "7", "7", "5", "8", "0", "8">>

\* The largest uint64.
MaxUint64 ==
    <<"1", "8", "4", "4", "6", "7", "4", "4", "0", "7",
      "3", "7", "0", "9", "5", "5", "1", "6", "1", "5">>

\* strconv.ParseUint in base 10 on what is left of the text, n being the
\* value of the digits read: the text is read from the left, and the first
\* character that is no digit is a syntax error, the first digit that takes
\* the value beyond uint64 a range error, whatever follows it.
RECURSIVE ParseUint(_, _)
ParseUint(s, n) ==
    IF s = <<>> THEN [kind |-> "nil", mag |-> n]
    ELSE IF ~IsDigit(Head(s)) THEN [kind |-> "ErrSyntax", mag |-> Numeral(0)]
    ELSE LET n1 == StripZeros(n \o <<Head(s)>>)
         IN  IF NumeralLess(MaxUint64, n1)
             THEN [kind |-> "ErrRange", mag |-> MaxUint64]
             ELSE ParseUint(Tail(s), n1)

\* strconv.Atoi: an optional sign, then one or more decimal digits.  A syntax
\* error is returned with 0; a value outside int64 is a range error, returned
\* with the nearest int64.
Atoi(s) ==
    LET signed == s # <<>> /\ Head(s) \in {"+", "-"}
        body == IF signed THEN Tail(s) ELSE s
        neg == signed /\ Head(s) = "-"
        limit == IF neg THEN MinInt64 ELSE MaxInt64
        un == ParseUint(body, Numeral(0))
    IN  IF body = <<>> \/ un.kind = "ErrSyntax"
        THEN [err |-> TRUE, kind |-> "ErrSyntax",
              num |-> GoInt(FALSE, Numeral(0))]
        ELSE IF un.kind = "ErrRange" \/ NumeralLess(limit, un.mag)
        THEN [err |-> TRUE, kind |-> "ErrRange", num |-> GoInt(neg, limit)]
        ELSE [err |-> FALSE, kind |-> "nil", num |-> GoInt(neg, un.mag)]

getInstanceNumberString(p, s) == Atoi(TrimPrefix(p, s \o <<"-">>))

\* The low 32 bits of a numeral's value, as two halves of 16 bits.
RECURSIVE Low32(_, _, _)
Low32(s, hi, lo) ==
    IF s = <<>> THEN [hi |-> hi, lo |-> lo]
    ELSE LET l == lo * 10 + DigitVal(Head(s))
         IN  Low32(Tail(s), (hi * 10 + l \div 65536) % 65536, l % 65536)

\* The conversion int32(num) of a Go int: the low 32 bits of its two's
\* complement, read as a signed number.
Int32(num) ==
    LET m == Low32(num.mag, 0, 0)
        w == IF ~num.neg THEN m
             ELSE [lo |-> (65536 - m.lo) % 65536,
                   hi |-> (65535 - m.hi + (IF m.lo = 0 THEN 1 ELSE 0)) % 65536]
    IN  IF w.hi >= 32768 THEN (w.hi - 65536) * 65536 + w.lo
        ELSE w.hi * 65536 + w.lo

\* A pod carrying the pool's label whose name is not <sts>-<number>.
StrayName == PoolName \o <<"-", "d", "b", "g">>

\* A pod carrying the pool's label whose name continues <sts>- with a number
\* outside 32 bits: -4294967295, which int32 turns into 1.
WrapName ==
    StsName \o <<"-", "-", "4", "2", "9", "4", "9", "6", "7", "2", "9", "5">>

\* The names of the pods that are no replicas of the statefulset.
StrayNames == <<StrayName, WrapName>>

\* Every name a pod of the model can have.
AllNames == StrayNames \o [i \in 1..MaxSize |-> PodName(i - 1)]

\* A pod is held as its place in AllNames.
Slots == 1..Len(AllNames)

StraySlots == 1..Len(StrayNames)

\* The place of a name.
SlotOf(n) == CHOOSE p \in Slots : AllNames[p] = n

SlotOfOrdinal(i) == SlotOf(PodName(i))

\* ------------------------------------------------------------------ status

EmptyCount == [s \in {} |-> 0]

CountGet(m, s) == IF s \in DOMAIN m THEN m[s] ELSE 0

\* CountInc with the count set to 1 instead of incremented.
CountInc_Overwrite(m, s) ==
    [t \in (DOMAIN m) \cup {s} |-> IF t = s THEN 1 ELSE m[t]]

\* m[s]++ on a Go map
CountInc(m, s) ==
    [t \in (DOMAIN m) \cup {s} |-> IF t = s THEN CountGet(m, s) + 1 ELSE m[t]]

\* The zero value of PvPoolStatus, the status of a pool no pass has written.
ZeroStatus == [phase |-> "", podsInfo |-> <<>>, countByState |-> EmptyCount]

\* reconcilePvPool's initial newStatus
InitStatus ==
    [phase |-> PvPoolPhaseUnknown, podsInfo |-> <<>>, countByState |-> EmptyCount]

\* reflect.DeepEqual on two values, each given with its Go type: values of
\* different types are never deeply equal.
DeepEqual(x, y) == x.type = y.type /\ x.val = y.val

\* Reconcile's "update status if needed" test: newStatus is a *PvPoolStatus,
\* pvPool.Status a PvPoolStatus.
StatusUpdateNeeded(newStatus, stored) ==
    ~DeepEqual([type |-> "*PvPoolStatus", val |-> newStatus],
               [type |-> "PvPoolStatus", val |-> stored])

\* ------------------------------------------------------------------ errors

NilErr == "nil"

ErrGetPool == "get pool"
ErrGetSrv == "get service"
ErrCreateSrv == "create service"
ErrGetSts == "get statefulset"
ErrCreateSts == "create statefulset"
ErrListPods == "list pods"
ErrUpdateSts == "update statefulset"
ErrUpdateStatus == "update status"
ErrAgentStatus == "agent status"
ErrAgentDecommission == "agent decommission"

\* ----------------------------------------------------------------- results

doNotRequeue == [requeueAfter |-> 0, err |-> NilErr, path |-> "doNotRequeue"]

requeueAfterSeconds(seconds) ==
    [requeueAfter |-> seconds, err |-> NilErr, path |-> "requeueAfterSeconds"]

requeueWithError(err) ==
    [requeueAfter |-> 3, err |-> err, path |-> "requeueWithError"]

\* ------------------------------------------------------------- the process

\* The values of the pool's Spec.Image; Spec.PvSizeGB takes the same road
\* into the statefulset (lines 301 and 348) and is not told apart from it.
Images == {"img-a", "img-b"}

NoImage == ""

NoSts == [exists |-> FALSE, replicas |-> 0, image |-> NoImage]

\* A Reconcile: where it stands (pc), what it holds, and what it did.
\*   kind         idle, or how the fetch of the pool ended: pass (found),
\*                notfound, geterr
\*   numPVs, image, stored   the fetched pool: Spec.NumPVs, Spec.Image, Status
\*   stale        the pool was edited or deleted since it was fetched
\*   status       newStatus
\*   err          reconcilePvPool's error
\*   replicas     *sts.Spec.Replicas as read from the cluster or as created
\*   list         podList.Items, a sequence of pods
\*   at           the place in list of decommissionRequiredPods' loop
\*   engine, branch   reconcilePvPoolStatefulset ran, and the branch it took
\*   srvCreate, stsCreate, update   the Create and Update calls issued
\*   updateTo     the replica count of the statefulset it sends
\*   calls, decErr   decommissionRequiredPods: the pods it issued a
\*                decommission call to, and its error
\*   statusWrite, statusWriteOk, statusSame, result   Reconcile's end
NoPass ==
    [pc |-> "idle", kind |-> "idle", numPVs |-> 0, image |-> NoImage,
     stored |-> ZeroStatus, stale |-> FALSE,
     status |-> InitStatus, err |-> NilErr, replicas |-> 0, list |-> <<>>,
     at |-> 0, engine |-> FALSE, branch |-> "",
     srvCreate |-> FALSE, stsCreate |-> FALSE, update |-> FALSE,
     updateTo |-> 0, calls |-> <<>>, decErr |-> NilErr,
     statusWrite |-> FALSE, statusWriteOk |-> FALSE, statusSame |-> FALSE,
     result |-> doNotRequeue]

\* Lines 99-102, 116 and 144-149: the Reconcile that fetched the pool and
\* built newStatus.
Fetched(n, img, stored) ==
    [NoPass EXCEPT !.pc = "getService", !.kind = "pass", !.numPVs = n,
                   !.image = img, !.stored = stored]

\* Return going on with the pass in spite of the error.
Return_GoesOn(p, err) == [p EXCEPT !.err = err]

\* reconcilePvPool returns newStatus and err (lines 153, 158, 170, 176, 182,
\* 185): on to lines 118-139.
Return(p, err) == [p EXCEPT !.err = err, !.pc = "status", !.at = 0]

\* ensurePvPoolService after r.Get (lines 200-220).
ServiceRead(p, exists) ==
    [p EXCEPT !.pc = IF exists THEN "getStatefulset" ELSE "createService"]

\* StatefulsetRead building the statefulset anew when the one it finds carries
\* another image than the pool's spec.
StatefulsetRead_Rebuilds(p, cur) ==
    IF cur.exists /\ cur.image = p.image
    THEN [p EXCEPT !.replicas = cur.replicas, !.pc = "list"]
    ELSE [p EXCEPT !.pc = "createStatefulset"]

\* ensurePvPoolStatefulset after r.Get (lines 261-284).
StatefulsetRead(p, cur) ==
    IF cur.exists THEN [p EXCEPT !.replicas = cur.replicas, !.pc = "list"]
    ELSE [p EXCEPT !.pc = "createStatefulset"]

\* newStatefulsetForPvPool: replicas := pvp.Spec.NumPVs, and the pod template
\* and the volume claim template are built from pvp.Spec.Image and
\* pvp.Spec.PvSizeGB.
newStatefulsetForPvPool(numPVs, image) ==
    [exists |-> TRUE, replicas |-> numPVs, image |-> image]

\* One round of collectPodsStatus' loop, for a pod whose agent answered
\* (lines 419-424).
CollectPod(pvpStatus, name, state) ==
    [pvpStatus EXCEPT
        !.podsInfo = Append(@, [podName |-> name, podStatus |-> state]),
        !.countByState = CountInc(@, state)]

\* CollectFailed recording the pod whose agent fails as Unknown before it
\* returns the error.
CollectFailed_MarksUnknown(p, name) ==
    Return([p EXCEPT !.status = CollectPod(@, name, PvPodStatusUnknown)],
           ErrAgentStatus)

\* One round of collectPodsStatus' loop, for a pod whose agent failed (lines
\* 416-418 and 174-177).
CollectFailed(p, name) == Return(p, ErrAgentStatus)

\* ShouldDecommission with the ordinal compared by > instead of >=.
ShouldDecommission_OffByOne(num, numPVs, state) ==
    Int32(num) > numPVs /\ state # PvPodStatusDecommissioning

\* ShouldDecommission sparing the pods of unknown state too.
ShouldDecommission_SparesUnknown(num, numPVs, state) ==
    /\ Int32(num) >= numPVs
    /\ state \notin {PvPodStatusDecommissioning, PvPodStatusUnknown}

\* decommissionRequiredPods' test for one pod (line 539).
ShouldDecommission(num, numPVs, state) ==
    Int32(num) >= numPVs /\ state # PvPodStatusDecommissioning

\* Lines 549-556: the loop assigns to the field of its by-value loop variable,
\* a copy of each entry of the fetched pool's stored PodsInfo, and changes no
\* list.
MarkDecommissioned(podsInfo, num) == podsInfo

\* What line 379 keeps of decommissionRequiredPods' error: the call is a
\* statement and its result is dropped.
DecommissionErrorKept(err) == NilErr

\* decommissionRequiredPods returns err (lines 533, 545, 559), and
\* reconcilePvPoolStatefulset goes on to line 390 and returns nil.
DecommissionReturn(p, err) ==
    Return([p EXCEPT !.decErr = err], DecommissionErrorKept(err))

\* decommissionRequiredPods' loop from place k of the list up to its next
\* call: a pod whose name holds no instance number is passed over (lines
\* 522-527).
RECURSIVE decommissionRequiredPods(_, _)
decommissionRequiredPods(p, k) ==
    IF k > Len(p.list) THEN DecommissionReturn(p, NilErr)
    ELSE IF getInstanceNumberString(AllNames[p.list[k]], StsName).err
    THEN decommissionRequiredPods(p, k + 1)
    ELSE [p EXCEPT !.pc = "decommission", !.at = k]

\* ScaleUpNeeded with the sizes compared by > instead of >=.
ScaleUpNeeded_Strict(numPVs, replicas, ready) ==
    numPVs > replicas /\ ready # numPVs

\* ScaleUpNeeded without the Ready-count test.
ScaleUpNeeded_IgnoresReady(numPVs, replicas, ready) == numPVs >= replicas

\* ScaleUpNeeded without the comparison of the sizes.
ScaleUpNeeded_AnySize(numPVs, replicas, ready) == ready # numPVs

\* The branch conditions of reconcilePvPoolStatefulset (lines 368, 376, 381).
ScaleUpNeeded(numPVs, replicas, ready) == numPVs >= replicas /\ ready # numPVs

ScaleDownNeeded(numPVs, replicas) == numPVs < replicas

AllReady(numPVs, ready) == ready = numPVs

\* Lines 368-375 and 390-393: up to the call of r.Update.
ScaleUp(p) ==
    [p EXCEPT !.branch = "scale-up", !.updateTo = p.numPVs,
              !.status.phase = PvPoolPhaseScaling, !.pc = "update"]

\* ScaleDown setting the phase to Scaling.
ScaleDown_MarksScaling(p) ==
    decommissionRequiredPods(
        [p EXCEPT !.branch = "scale-down",
                  !.status.phase = PvPoolPhaseScaling], 1)

\* Lines 376-379: up to the first call of decommissionRequiredPods.
ScaleDown(p) == decommissionRequiredPods([p EXCEPT !.branch = "scale-down"], 1)

\* Lines 381-388 and 400.
SetPhase(p, branch, phase) ==
    Return([p EXCEPT !.branch = branch, !.status.phase = phase], NilErr)

\* reconcilePvPoolStatefulset from its entry up to its first call, or to its
\* return when it makes none.
reconcilePvPoolStatefulset(p) ==
    LET ready == CountGet(p.status.countByState, PvPodStatusReady)
        q == [p EXCEPT !.engine = TRUE]
    IN  IF ScaleUpNeeded(p.numPVs, p.replicas, ready) THEN ScaleUp(q)
        ELSE IF ScaleDownNeeded(p.numPVs, p.replicas) THEN ScaleDown(q)
        ELSE IF AllReady(p.numPVs, ready)
        THEN SetPhase(q, "ready", PvPoolPhaseReady)
        ELSE SetPhase(q, "not-ready", PvPoolPhaseScaling)

\* collectPodsStatus' loop from the pod after the last one collected: its
\* next call, or, past the last pod, its return and lines 174-179.
collectPodsStatus(p) ==
    IF Len(p.status.podsInfo) < Len(p.list) THEN [p EXCEPT !.pc = "collect"]
    ELSE reconcilePvPoolStatefulset(p)

\* ReconcileResult ending the pass without a requeue when reconcilePvPool
\* failed.
ReconcileResult_StopsOnError(err, reconcileErr, phase) ==
    IF reconcileErr # NilErr THEN doNotRequeue
    ELSE IF phase # PvPoolPhaseReady THEN requeueAfterSeconds(3)
    ELSE requeueAfterSeconds(60)

\* Lines 128-139: the result of a pass whose status update did not fail.  err
\* is Reconcile's outer err, the result of the fetch (nil here): the err of
\* the status update is a new variable of the if block.
ReconcileResult(err, reconcileErr, phase) ==
    IF reconcileErr # NilErr THEN requeueWithError(err)
    ELSE IF phase # PvPoolPhaseReady THEN requeueAfterSeconds(3)
    ELSE requeueAfterSeconds(60)

\* Lines 118-139 for a status update that failed (write and ~ok), went
\* through (write and ok) or was not issued (~write).
ReconcileEnd(p, write, ok) ==
    [p EXCEPT
        !.pc = "done",
        !.statusWrite = write,
        !.statusWriteOk = write /\ ok,
        !.statusSame = (p.status = p.stored),
        !.result = IF write /\ ~ok THEN requeueWithError(ErrUpdateStatus)
                   ELSE ReconcileResult(NilErr, p.err,
                            IF write THEN p.status.phase ELSE p.stored.phase)]

\* The orders in which a set of pods can be listed.
Orders(S) ==
    {l \in [1..Cardinality(S) -> S] :
        \A i, j \in 1..Cardinality(S) : l[i] = l[j] => i = j}

\* The outcomes of a call: it fails when it cannot go through (broken), and
\* otherwise fails or not as F, the failures at hand, allows.
Outcomes(F, broken) == IF broken THEN {TRUE} ELSE F

\* ------------------------------------------------------------------- state

VARIABLES
    poolExists,   \* the PvPool resource exists
    numPVs,       \* its Spec.NumPVs, the desired size
    image,        \* its Spec.Image
    status,       \* its stored Status
    srvExists,    \* the service <pool>-srv exists
    sts,          \* the statefulset <pool>-sts: [exists, replicas, image]
    agent,        \* per pod: Absent, or the state the pod's agent reports
    pass          \* the Reconcile in flight, or the one that ended last

vars == <<poolExists, numPVs, image, status, srvExists, sts, agent, pass>>

cluster == <<poolExists, numPVs, image, status, srvExists, sts, agent>>

\* A pool that was just created with the first of the images, or a request
\* for a pool that does not exist.
Init ==
    /\ poolExists \in BOOLEAN
    /\ numPVs \in (IF poolExists THEN 0..MaxSize ELSE {0})
    /\ image = (IF poolExists THEN "img-a" ELSE NoImage)
    /\ status = ZeroStatus
    /\ srvExists = FALSE
    /\ sts = NoSts
    /\ agent = [p \in Slots |-> Absent]
    /\ pass = NoPass

\* No Reconcile is in flight.
Returned == pass.pc \in {"idle", "done"}

\* The pods that exist.
Pods == {p \in Slots : agent[p] # Absent}

\* ---------------------------------------------------------------- Reconcile
\* Every step takes F, the outcomes its call may have: FALSE for going
\* through, TRUE for failing.

\* ReconcileNotFound answering with requeueWithError.
ReconcileNotFound_Requeues(F) ==
    /\ Returned
    /\ ~poolExists
    /\ pass' = [NoPass EXCEPT !.pc = "done", !.kind = "notfound",
                              !.result = requeueWithError(ErrGetPool)]
    /\ UNCHANGED cluster

\* Lines 95-110: the pool named in the request does not exist.
ReconcileNotFound(F) ==
    /\ Returned
    /\ ~poolExists
    /\ pass' = [NoPass EXCEPT !.pc = "done", !.kind = "notfound",
                              !.result = doNotRequeue]
    /\ UNCHANGED cluster

\* Lines 95-113: fetching the pool fails with another error.
ReconcileGetError ==
    /\ Returned
    /\ pass' = [NoPass EXCEPT !.pc = "done", !.kind = "geterr",
                              !.result = requeueWithError(ErrGetPool)]
    /\ UNCHANGED cluster

\* ReconcileGet starting newStatus from the stored status.
ReconcileGet_KeepsStored(F) ==
    /\ Returned
    /\ poolExists
    /\ pass' = [Fetched(numPVs, image, status) EXCEPT
                   !.status.podsInfo = status.podsInfo,
                   !.status.countByState = status.countByState]
    /\ UNCHANGED cluster

\* Lines 95-102, 116 and 144-149: the pool is fetched and newStatus built.
ReconcileGet(F) ==
    /\ Returned
    /\ poolExists
    /\ pass' = Fetched(numPVs, image, status)
    /\ UNCHANGED cluster

\* ensurePvPoolService, r.Get (lines 199-220).
GetService(F) ==
    /\ pass.pc = "getService"
    /\ \E fail \in F :
        pass' = IF fail THEN Return(pass, ErrGetSrv)
                ELSE ServiceRead(pass, srvExists)
    /\ UNCHANGED cluster

\* ensurePvPoolService, r.Create (lines 204-212); a service of that name
\* makes it fail.
CreateService(F) ==
    /\ pass.pc = "createService"
    /\ \E fail \in Outcomes(F, srvExists) :
        /\ srvExists' = (srvExists \/ ~fail)
        /\ pass' = IF fail
                   THEN Return([pass EXCEPT !.srvCreate = TRUE], ErrCreateSrv)
                   ELSE [pass EXCEPT !.srvCreate = TRUE,
                                     !.pc = "getStatefulset"]
    /\ UNCHANGED <<poolExists, numPVs, image, status, sts, agent>>

\* ensurePvPoolStatefulset, r.Get (lines 260-284).
GetStatefulset(F) ==
    /\ pass.pc = "getStatefulset"
    /\ \E fail \in F :
        pass' = IF fail THEN Return(pass, ErrGetSts)
                ELSE StatefulsetRead(pass, sts)
    /\ UNCHANGED cluster

\* ensurePvPoolStatefulset, newStatefulsetForPvPool and r.Create (lines
\* 265-274); a statefulset of that name makes it fail.
CreateStatefulset(F) ==
    /\ pass.pc = "createStatefulset"
    /\ \E fail \in Outcomes(F, sts.exists) :
        /\ sts' = IF fail THEN sts
                  ELSE newStatefulsetForPvPool(pass.numPVs, pass.image)
        /\ pass' = IF fail
                   THEN Return([pass EXCEPT !.stsCreate = TRUE], ErrCreateSts)
                   ELSE [pass EXCEPT !.stsCreate = TRUE, !.pc = "list",
                                     !.replicas = pass.numPVs]
    /\ UNCHANGED <<poolExists, numPVs, image, status, srvExists, agent>>

\* r.List (lines 162-171): the pods that carry the pool's label, in the order
\* the API hands them out.
ListPods(F) ==
    /\ pass.pc = "list"
    /\ \E fail \in F :
        IF fail THEN pass' = Return(pass, ErrListPods)
        ELSE \E l \in Orders(Pods) :
                 pass' = collectPodsStatus([pass EXCEPT !.list = l])
    /\ UNCHANGED cluster

\* collectPodsStatus, getStorageAgentStatus for the next pod (lines 411-427);
\* a pod that is gone does not answer.
CollectStatus(F) ==
    /\ pass.pc = "collect"
    /\ LET p == pass.list[Len(pass.status.podsInfo) + 1]
       IN  \E fail \in Outcomes(F, agent[p] = Absent) :
               pass' = IF fail THEN CollectFailed(pass, AllNames[p])
                       ELSE collectPodsStatus(
                                [pass EXCEPT !.status =
                                    CollectPod(@, AllNames[p], agent[p])])
    /\ UNCHANGED cluster

\* decommissionRequiredPods, getStorageAgentStatus for the pod at hand (lines
\* 529-539).
DecommissionRead(F) ==
    /\ pass.pc = "decommission"
    /\ LET p == pass.list[pass.at]
           num == getInstanceNumberString(AllNames[p], StsName).num
       IN  \E fail \in Outcomes(F, agent[p] = Absent) :
               pass' = IF fail THEN DecommissionReturn(pass, ErrAgentStatus)
                       ELSE IF ShouldDecommission(num, pass.numPVs, agent[p])
                       THEN [pass EXCEPT !.pc = "decommissionCall"]
                       ELSE decommissionRequiredPods(pass, pass.at + 1)
    /\ UNCHANGED cluster

\* decommissionRequiredPods, decommissionStorageAgent for the pod at hand
\* (lines 540-557).
DecommissionCall(F) ==
    /\ pass.pc = "decommissionCall"
    /\ LET p == pass.list[pass.at]
           num == getInstanceNumberString(AllNames[p], StsName).num
           called == [pass EXCEPT !.calls = Append(@, AllNames[p])]
       IN  \E fail \in Outcomes(F, agent[p] = Absent) :
               pass' = IF fail
                       THEN DecommissionReturn(called, ErrAgentDecommission)
                       ELSE decommissionRequiredPods(
                                [called EXCEPT !.stored.podsInfo =
                                    MarkDecommissioned(@, num)],
                                pass.at + 1)
    /\ UNCHANGED cluster

\* reconcilePvPoolStatefulset, r.Update (lines 390-400); it fails when the
\* statefulset is gone.
UpdateStatefulset(F) ==
    /\ pass.pc = "update"
    /\ \E fail \in Outcomes(F, ~sts.exists) :
        /\ sts' = IF fail THEN sts ELSE [sts EXCEPT !.replicas = pass.updateTo]
        /\ pass' = Return([pass EXCEPT !.update = TRUE],
                          IF fail THEN ErrUpdateSts ELSE NilErr)
    /\ UNCHANGED <<poolExists, numPVs, image, status, srvExists, agent>>

\* Reconcile's end (lines 118-139): the status update, which sends the pool as
\* it was fetched and fails when the pool was edited or deleted since, and the
\* result.
StatusUpdate(F) ==
    /\ pass.pc = "status"
    /\ LET write == StatusUpdateNeeded(pass.status, pass.stored)
       IN  \E fail \in Outcomes(F, ~poolExists \/ pass.stale) :
               /\ fail => write
               /\ status' = IF write /\ ~fail THEN pass.status ELSE status
               /\ pass' = ReconcileEnd(pass, write, ~fail)
    /\ UNCHANGED <<poolExists, numPVs, image, srvExists, sts, agent>>

\* A Reconcile that fetches the pool or learns that there is none, step by
\* step.
Reconcile(F) ==
    \/ ReconcileNotFound(F)
    \/ ReconcileGet(F)
    \/ GetService(F)
    \/ CreateService(F)
    \/ GetStatefulset(F)
    \/ CreateStatefulset(F)
    \/ ListPods(F)
    \/ CollectStatus(F)
    \/ DecommissionRead(F)
    \/ DecommissionCall(F)
    \/ UpdateStatefulset(F)
    \/ StatusUpdate(F)

\* ---------------------------------------------------------------- environment

\* What is kept of the Reconcile when the environment moves: one in flight
\* goes on, one that returned is forgotten.
Kept == IF Returned THEN NoPass ELSE pass

\* The same when the pool is edited or deleted: the Reconcile in flight holds
\* a pool that is no more the stored one.
Outdated == IF Returned THEN NoPass ELSE [pass EXCEPT !.stale = TRUE]

\* The pool's owner changes the desired size to one of S.
SpecChangeTo(S) ==
    /\ poolExists
    /\ \E d \in S \ {numPVs} : numPVs' = d
    /\ pass' = Outdated
    /\ UNCHANGED <<poolExists, image, status, srvExists, sts, agent>>

\* The pool's owner changes the image.
ImageChange ==
    /\ poolExists
    /\ \E i \in Images \ {image} : image' = i
    /\ pass' = Outdated
    /\ UNCHANGED <<poolExists, numPVs, status, srvExists, sts, agent>>

\* The pods left when the replicas of the statefulset are removed.
Collected(ag) == [p \in Slots |-> IF p \in StraySlots THEN ag[p] ELSE Absent]

\* The pool is deleted; the objects it owns are garbage collected with it.
DeletePool ==
    /\ poolExists
    /\ poolExists' = FALSE
    /\ status' = ZeroStatus
    /\ srvExists' = FALSE
    /\ sts' = NoSts
    /\ agent' = Collected(agent)
    /\ numPVs' = 0
    /\ image' = NoImage
    /\ pass' = Outdated

\* The garbage collector removes what a Reconcile created for a pool that was
\* deleted under it.
GarbageCollect ==
    /\ ~poolExists
    /\ srvExists \/ sts.exists \/ agent # Collected(agent)
    /\ srvExists' = FALSE
    /\ sts' = NoSts
    /\ agent' = Collected(agent)
    /\ pass' = Kept
    /\ UNCHANGED <<poolExists, numPVs, image, status>>

\* A pool of the same name is created.
CreatePool ==
    /\ ~poolExists
    /\ poolExists' = TRUE
    /\ \E d \in 0..MaxSize : numPVs' = d
    /\ \E i \in Images : image' = i
    /\ status' = ZeroStatus
    /\ pass' = Kept
    /\ UNCHANGED <<srvExists, sts, agent>>

\* The StatefulSet controller starts the replica of the lowest missing
\* ordinal below the replica count.
PodCreate ==
    /\ sts.exists
    /\ \E i \in 0..(MaxSize - 1) :
        /\ i < sts.replicas
        /\ agent[SlotOfOrdinal(i)] = Absent
        /\ \A j \in 0..(i - 1) : agent[SlotOfOrdinal(j)] # Absent
        /\ agent' = [agent EXCEPT ![SlotOfOrdinal(i)] = PvPodStatusUnknown]
    /\ pass' = Kept
    /\ UNCHANGED <<poolExists, numPVs, image, status, srvExists, sts>>

\* Somebody starts pod p, which carries the pool's label and is no replica of
\* the statefulset; one such pod exists at a time, and its agent reports
\* Ready.
StrayOf(p) ==
    /\ \A q \in StraySlots : agent[q] = Absent
    /\ agent' = [agent EXCEPT ![p] = PvPodStatusReady]
    /\ pass' = Kept
    /\ UNCHANGED <<poolExists, numPVs, image, status, srvExists, sts>>

\* A pod goes away.
PodGone ==
    /\ \E p \in Slots :
        /\ agent[p] # Absent
        /\ agent' = [agent EXCEPT ![p] = Absent]
    /\ pass' = Kept
    /\ UNCHANGED <<poolExists, numPVs, image, status, srvExists, sts>>

\* The agent of a replica changes the state it reports to one of S.
AgentTo(S) ==
    /\ \E p \in Slots \ StraySlots, s \in S :
        /\ agent[p] \notin {Absent, s}
        /\ agent' = [agent EXCEPT ![p] = s]
    /\ pass' = Kept
    /\ UNCHANGED <<poolExists, numPVs, image, status, srvExists, sts>>

\* An agent that the Reconcile told to decommission starts to.
Obey ==
    /\ \E p \in Slots :
        /\ \E k \in 1..Len(pass.calls) : pass.calls[k] = AllNames[p]
        /\ agent[p] \in {PvPodStatusUnknown, PvPodStatusReady}
        /\ agent' = [agent EXCEPT ![p] = PvPodStatusDecommissioning]
    /\ pass' = Kept
    /\ UNCHANGED <<poolExists, numPVs, image, status, srvExists, sts>>

\* A decommissioning agent finishes.
Finish ==
    /\ \E p \in Slots :
        /\ agent[p] = PvPodStatusDecommissioning
        /\ agent' = [agent EXCEPT ![p] = PvPodStatusDecommissioned]
    /\ pass' = Kept
    /\ UNCHANGED <<poolExists, numPVs, image, status, srvExists, sts>>

\* The pod of a decommissioned agent terminates.
Terminate ==
    /\ \E p \in Slots :
        /\ agent[p] = PvPodStatusDecommissioned
        /\ agent' = [agent EXCEPT ![p] = Absent]
    /\ pass' = Kept
    /\ UNCHANGED <<poolExists, numPVs, image, status, srvExists, sts>>

\* ----------------------------------------------------------- specifications
\* Each specification takes the Reconcile, every call of which can fail, and
\* a part of the environment.

UpStates == {PvPodStatusUnknown, PvPodStatusReady}

DownStates == {PvPodStatusUnknown, PvPodStatusDecommissioning}

\* A pool whose size changes and whose pods come, go, get ready and fall
\* back, under a Reconcile any call of which can fail.
Next ==
    \/ ReconcileGetError
    \/ Reconcile(BOOLEAN)
    \/ SpecChangeTo(0..MaxSize)
    \/ PodCreate
    \/ PodGone
    \/ AgentTo(UpStates)

Spec == Init /\ [][Next]_vars

\* The same with pods that take to decommissioning of their own.
DownNext ==
    \/ ReconcileGetError
    \/ Reconcile(BOOLEAN)
    \/ SpecChangeTo(0..MaxSize)
    \/ PodCreate
    \/ PodGone
    \/ AgentTo(DownStates)

DownSpec == Init /\ [][DownNext]_vars

\* The same with a labelled pod whose name holds no instance number.
StrayNext ==
    \/ ReconcileGetError
    \/ Reconcile(BOOLEAN)
    \/ SpecChangeTo(0..MaxSize)
    \/ PodCreate
    \/ PodGone
    \/ StrayOf(SlotOf(StrayName))

StraySpec == Init /\ [][StrayNext]_vars

\* The same with a labelled pod whose instance number is outside 32 bits.
WrapNext ==
    \/ ReconcileGetError
    \/ Reconcile(BOOLEAN)
    \/ SpecChangeTo(0..MaxSize)
    \/ PodCreate
    \/ PodGone
    \/ StrayOf(SlotOf(WrapName))

WrapSpec == Init /\ [][WrapNext]_vars

\* Pools that are edited, deleted and created again.
LifeNext ==
    \/ ReconcileGetError
    \/ Reconcile(BOOLEAN)
    \/ SpecChangeTo(0..MaxSize)
    \/ ImageChange
    \/ DeletePool
    \/ GarbageCollect
    \/ CreatePool
    \/ PodCreate
    \/ PodGone

LifeSpec == Init /\ [][LifeNext]_vars

\* A Reconcile whose calls fail only when they cannot go through, agents
\* that get ready and go through with a decommission they were told to make.
LiveInit == Init /\ numPVs <= LiveSize

LiveNext ==
    \/ Reconcile({FALSE})
    \/ SpecChangeTo(0..LiveSize)
    \/ PodCreate
    \/ StrayOf(SlotOf(StrayName))
    \/ AgentTo({PvPodStatusReady})
    \/ Obey
    \/ Finish
    \/ Terminate

\* Reconcile requeues itself after every pass for a pool that exists, and
\* each of its calls returns.
LiveSpec ==
    /\ LiveInit
    /\ [][LiveNext]_vars
    /\ WF_vars(Reconcile({FALSE}))
    /\ WF_vars(AgentTo({PvPodStatusReady}))
    /\ WF_vars(Obey)
    /\ WF_vars(Finish)
    /\ WF_vars(Terminate)

\* ------------------------------------------------------------------ claims
\* The formulas speak of the Reconcile held in `pass`, in flight or just
\* returned, and of its steps.

\* The Reconcile fetched the pool.
InPass == pass.kind = "pass"

\* The Reconcile returned.
Ended == pass.pc = "done"

PassEnded == InPass /\ Ended

\* The engine (reconcilePvPoolStatefulset) ran in the pass.
EngineRan == InPass /\ pass.engine

\* The pass took the scale-down branch: desired size below the replica count.
ScaleDownPass == EngineRan /\ pass.numPVs < pass.replicas

\* The collector failed on an agent.
CollectorFailed == InPass /\ ~pass.engine /\ pass.err = ErrAgentStatus

\* The status update of the pass failed.
WriteFailed == pass.statusWrite /\ ~pass.statusWriteOk

\* A step of the Reconcile: every step of the environment leaves the
\* Reconcile in flight where it is, at most outdating its pool, or forgets the
\* one that returned.
Stepped == pass' \notin {pass, NoPass, [pass EXCEPT !.stale = TRUE]}

\* The step of the Reconcile that makes the call of position pc.
StepAt(pc) == pass.pc = pc /\ Stepped

\* The step that begins a Reconcile for a pool it finds.
StepIn == Returned /\ Stepped /\ pass'.kind = "pass"

Occurrences(seq, x) == Cardinality({k \in 1..Len(seq) : seq[k] = x})

EntriesWith(info, s) == Cardinality({k \in 1..Len(info) : info[k].podStatus = s})

NamesOf(info) == [k \in 1..Len(info) |-> info[k].podName]

\* The names of a list of pods.
Named(list) == [k \in 1..Len(list) |-> AllNames[list[k]]]

SeqToSet(seq) == {seq[k] : k \in 1..Len(seq)}

\* The pods counted Ready in the pass.
ReadyCounted == CountGet(pass.status.countByState, PvPodStatusReady)

\* The instance number in the name of pod p, with the error of its parse.
InstanceNumber(p) == getInstanceNumberString(AllNames[p], StsName)

\* The pod's name holds an instance number, which is at least d.
OrdinalAtLeast(p, d) ==
    /\ ~InstanceNumber(p).err
    /\ ~InstanceNumber(p).num.neg
    /\ ~NumeralLess(InstanceNumber(p).num.mag, Numeral(d))

\* The state collected for the pod at place k of the list.
CollectedState(k) == pass.status.podsInfo[k].podStatus

\* The pods of the list from place k on whose names hold no instance number.
Nameless(list, from, to) ==
    \A k \in from..to : InstanceNumber(list[k]).err

\* decommissionRequiredPods' loop went on from the pod at hand to the next
\* pod with an instance number, or to its end.
MovedOn ==
    \/ /\ pass'.pc = "decommission"
       /\ pass'.at > pass.at
       /\ Nameless(pass.list, pass.at + 1, pass'.at - 1)
    \/ /\ pass'.pc = "status"
       /\ pass'.decErr = NilErr
       /\ Nameless(pass.list, pass.at + 1, Len(pass.list))

\* C1: when the engine runs with desired size D >= replica count C and a
\* Ready count other than D, it sets the replica count to D and the phase to
\* Scaling and issues the statefulset update; the update that goes through
\* leaves the statefulset with D replicas.
C1_ScaleUp ==
    [][/\ (EngineRan' /\ pass'.numPVs >= pass'.replicas
               /\ ReadyCounted' # pass'.numPVs)
           => /\ pass'.branch = "scale-up"
              /\ pass'.updateTo = pass'.numPVs
              /\ pass'.status.phase = PvPoolPhaseScaling
              /\ pass'.pc = "update" \/ pass'.update
       /\ StepAt("update")
           => /\ pass'.update
              /\ pass'.err = NilErr
                     => sts' = [sts EXCEPT !.replicas = pass.numPVs]
              /\ pass'.err # NilErr => sts' = sts
      ]_vars

C1_Witness ==
    /\ PassEnded
    /\ pass.engine
    /\ pass.numPVs > pass.replicas
    /\ ReadyCounted # pass.numPVs
    /\ pass.update
    /\ pass.err = NilErr
    /\ sts.replicas = pass.numPVs
    /\ pass.status.phase = PvPoolPhaseScaling

\* C2 as stated: in a scale-down pass every listed pod with ordinal >= D and
\* collected state other than Decommissioning is issued exactly one
\* decommission call.
C2_Original ==
    (ScaleDownPass /\ Ended) =>
        \A k \in 1..Len(pass.list) :
            (OrdinalAtLeast(pass.list[k], pass.numPVs)
                /\ CollectedState(k) # PvPodStatusDecommissioning)
            => Occurrences(pass.calls, AllNames[pass.list[k]]) = 1

\* C2 amended: in a scale-down pass the engine visits the listed pods whose
\* names hold an instance number, in list order, and asks each one's agent
\* for its state again.  When that call fails the visit ends with no call to
\* the pod.  Otherwise the pod is issued one decommission call if its
\* instance number, taken as a 32-bit integer, is >= D and the state just
\* answered is not Decommissioning, and none if not.  A decommission call that
\* fails ends the visit, and every other one is followed by the next pod.  No
\* pod is issued two calls, and none is issued outside these steps.
C2_Amended ==
    [][/\ StepAt("decommission") =>
           LET p == pass.list[pass.at]
           IN  /\ pass'.calls = pass.calls
               /\ \/ /\ pass'.decErr = ErrAgentStatus
                     /\ pass'.pc = "status"
                  \/ /\ agent[p] # Absent
                     /\ pass'.decErr = NilErr
                     /\ IF /\ Int32(InstanceNumber(p).num) >= pass.numPVs
                           /\ agent[p] # PvPodStatusDecommissioning
                        THEN pass'.pc = "decommissionCall" /\ pass'.at = pass.at
                        ELSE MovedOn
       /\ StepAt("decommissionCall") =>
           /\ pass'.calls = Append(pass.calls, AllNames[pass.list[pass.at]])
           /\ \/ pass'.decErr = ErrAgentDecommission /\ pass'.pc = "status"
              \/ MovedOn
       /\ (Stepped /\ pass.pc # "decommissionCall")
           => pass'.calls = IF Returned THEN <<>> ELSE pass.calls
       /\ pass'.pc \in {"decommission", "decommissionCall"}
           => /\ ScaleDownPass'
              /\ pass'.at \in 1..Len(pass'.list)
              /\ ~InstanceNumber(pass'.list[pass'.at]).err
       /\ \A n \in SeqToSet(pass'.calls) : Occurrences(pass'.calls, n) = 1
      ]_vars

\* A scale-down pass visited two pods, none of whose calls failed, and issued
\* a decommission call to each.
C2_Witness ==
    /\ ScaleDownPass
    /\ Ended
    /\ pass.decErr = NilErr
    /\ Len(pass.calls) = 2

\* C3: a pass issues a decommission call only to a pod whose name holds an
\* instance number >= the desired size of that pass, and only in a pass whose
\* desired size is below the replica count.
C3_NoCallBelowDesired ==
    InPass =>
        /\ \A k \in 1..Len(pass.list) :
               AllNames[pass.list[k]] \in SeqToSet(pass.calls)
                   => OrdinalAtLeast(pass.list[k], pass.numPVs)
        /\ pass.calls # <<>> => ScaleDownPass

\* C4: when an agent call fails in the decommission step, the failure reaches
\* Reconcile, which returns through requeueWithError with that error.
C4_DecommissionFailureSurfaces ==
    (PassEnded /\ pass.decErr # NilErr)
        => /\ pass.err # NilErr
           /\ pass.result.path = "requeueWithError"
           /\ pass.result.err # NilErr

\* C5: when a step of reconcilePvPool fails, Reconcile returns the 3-second
\* requeue together with a non-nil error.
C5_StepFailureReturnsError ==
    (PassEnded /\ pass.err # NilErr)
        => /\ pass.result.requeueAfter = 3
           /\ pass.result.err # NilErr

\* C6 as stated: when the collector fails on an agent, the stored status
\* after the pass is the status stored before it, and a 3-second retry is
\* scheduled.
C6_Original ==
    (CollectorFailed /\ Ended) =>
        /\ status = pass.stored
        /\ pass.result.requeueAfter = 3

\* C6 amended: when the collector fails on an agent, the pass fails with the
\* status built so far: phase Unknown and the entries of the pods listed
\* before the failing one, the failing call adding none.  Reconcile issues a
\* status update with that partial status, which is the stored status when
\* the update goes through (the stored status is untouched when it fails),
\* and schedules a 3-second retry.
C6_Amended ==
    [][/\ (StepAt("collect") /\ pass'.err # NilErr)
           => /\ CollectorFailed'
              /\ pass'.status = pass.status
       /\ CollectorFailed'
           => /\ pass'.status.phase = PvPoolPhaseUnknown
              /\ Len(pass'.status.podsInfo) < Len(pass'.list)
              /\ NamesOf(pass'.status.podsInfo)
                     = SubSeq(Named(pass'.list), 1, Len(pass'.status.podsInfo))
              /\ pass'.pc \in {"status", "done"}
       /\ (StepAt("status") /\ CollectorFailed)
           => /\ pass'.statusWrite
              /\ pass'.result.requeueAfter = 3
              /\ status' = IF pass'.statusWriteOk THEN pass.status ELSE status
      ]_vars

C6_Witness ==
    /\ CollectorFailed
    /\ Ended
    /\ pass.statusWriteOk
    /\ ~pass.statusSame
    /\ Len(pass.status.podsInfo) >= 1
    /\ status = pass.status
    /\ status # pass.stored

\* C7: a pass issues the status update exactly when the status it computed
\* differs from the status stored on the pool it fetched.
C7_WriteOnlyIfChanged ==
    PassEnded => (pass.statusWrite <=> ~pass.statusSame)

\* C8: the engine on a converged pool (replica count = desired size = Ready
\* count) yields phase Ready and issues no statefulset update and no
\* decommission call, every time it runs on such a state; the steps of a
\* Reconcile whose engine found the pool converged change nothing but the
\* stored status, so that the next one meets the state this one met.
C8_ConvergedIsQuiet ==
    [][/\ (EngineRan' /\ pass'.replicas = pass'.numPVs
               /\ ReadyCounted' = pass'.numPVs)
           => /\ pass'.branch = "ready"
              /\ pass'.status.phase = PvPoolPhaseReady
              /\ pass'.err = NilErr
              /\ ~pass'.update
              /\ pass'.calls = <<>>
              /\ pass'.pc \in {"status", "done"}
       /\ (Stepped /\ pass'.branch = "ready")
           => UNCHANGED <<poolExists, numPVs, image, srvExists, sts, agent>>
      ]_vars

\* A Reconcile found a pool of the largest size converged and stored the
\* status that was stored before.
C8_Witness ==
    /\ PassEnded
    /\ pass.branch = "ready"
    /\ pass.numPVs = MaxSize
    /\ pass.replicas = pass.numPVs
    /\ ReadyCounted = pass.numPVs
    /\ pass.statusWriteOk
    /\ pass.statusSame

\* C9: the status a scale-down pass produces lists every pod it issued a
\* decommission call to as Decommissioned.
C9_CalledPodsMarked ==
    (ScaleDownPass /\ Ended /\ pass.decErr = NilErr) =>
        \A k \in 1..Len(pass.list) :
            AllNames[pass.list[k]] \in SeqToSet(pass.calls)
                => CollectedState(k) = PvPodStatusDecommissioned

\* C10: in the status a pass builds, at every step of the pass, and in the
\* stored status, the count of each pod state is the number of podsInfo
\* entries in that state, and the counts add up to the number of entries.
RECURSIVE SumCounts(_, _)
SumCounts(m, keys) ==
    IF keys = {} THEN 0
    ELSE LET s == CHOOSE x \in keys : TRUE
         IN  m[s] + SumCounts(m, keys \ {s})

Tallied(st) ==
    /\ \A s \in PodStates \cup DOMAIN st.countByState :
           CountGet(st.countByState, s) = EntriesWith(st.podsInfo, s)
    /\ SumCounts(st.countByState, DOMAIN st.countByState) = Len(st.podsInfo)

C10_CountsMatchEntries ==
    /\ Tallied(pass.status)
    /\ Tallied(status)

\* The collector failed on the second of two pods, and the partial status
\* was stored.
C10_Witness ==
    /\ CollectorFailed
    /\ Ended
    /\ Len(pass.list) = 2
    /\ Len(pass.status.podsInfo) = 1
    /\ CountGet(pass.status.countByState, PvPodStatusReady) = 1
    /\ status = pass.status

\* C11: every Reconcile for a pool that exists (a pass, or a failed fetch)
\* returns a requeue delay of 3 or of 60 seconds; it is 60 exactly when no
\* call of the pass failed and the phase of the pass is Ready.
C11_AlwaysRequeued ==
    (Ended /\ pass.kind \in {"pass", "geterr"}) =>
        /\ pass.result.requeueAfter \in {3, 60}
        /\ pass.result.requeueAfter = 60
               <=> /\ InPass
                   /\ pass.err = NilErr
                   /\ ~WriteFailed
                   /\ pass.status.phase = PvPoolPhaseReady

C11_Witness ==
    /\ PassEnded
    /\ pass.result.requeueAfter = 60
    /\ pass.status.phase = PvPoolPhaseReady
    /\ status.phase = PvPoolPhaseReady
    /\ pass.numPVs > 0

\* C12: a Reconcile that does not find the pool returns at once with no error
\* and no requeue, has issued no create, no update, no status update and no
\* agent call, and changes nothing in the cluster.
C12_NotFoundIsQuiet ==
    [][(Stepped /\ pass'.kind = "notfound") =>
          /\ ~poolExists
          /\ Returned
          /\ pass'.pc = "done"
          /\ pass'.result.requeueAfter = 0
          /\ pass'.result.err = NilErr
          /\ ~pass'.statusWrite
          /\ ~pass'.srvCreate /\ ~pass'.stsCreate /\ ~pass'.update
          /\ pass'.list = <<>>
          /\ pass'.status.podsInfo = <<>>
          /\ pass'.calls = <<>>
          /\ UNCHANGED cluster
      ]_vars

\* A Reconcile did not find the pool while a service made for it was still
\* there.
C12_Witness == pass.kind = "notfound" /\ ~poolExists /\ srvExists

\* C13: a Reconcile that finds the service goes on without a create, and no
\* step of a Reconcile removes the service or creates it where it exists; one
\* that finds the statefulset goes on without a create, and no step of a
\* Reconcile changes anything of a statefulset but its replica count, whatever
\* the image of the pool's spec has become.
C13_OwnedResourcesKept ==
    [][Stepped =>
          /\ srvExists => (srvExists' /\ pass.pc # "createService")
          /\ (pass.pc = "getService" /\ srvExists)
                 => pass'.pc \in {"getStatefulset", "status"}
          /\ sts.exists =>
                 /\ pass.pc # "createStatefulset"
                 /\ sts'.exists
                 /\ sts'.image = sts.image
                 /\ sts' = [sts EXCEPT !.replicas = sts'.replicas]
          /\ (pass.pc = "getStatefulset" /\ sts.exists)
                 => /\ pass'.pc \notin {"createStatefulset", "getStatefulset"}
                    /\ ~pass'.stsCreate
      ]_vars

\* A pass updated a statefulset it had found, built from another image than
\* the pool's spec names.
C13_Witness ==
    /\ PassEnded
    /\ pass.engine
    /\ ~pass.stsCreate
    /\ sts.exists
    /\ sts.image # pass.image
    /\ pass.update
    /\ pass.err = NilErr
    /\ sts.replicas > pass.replicas

\* C14: a pass without a failing call that created the service and the
\* statefulset of a pool of desired size D > 0 created the statefulset with D
\* replicas, and its phase is Scaling.
C14_FirstPassScaling ==
    (PassEnded /\ pass.srvCreate /\ pass.stsCreate /\ pass.numPVs > 0
        /\ pass.err = NilErr /\ ~WriteFailed)
        => /\ pass.replicas = pass.numPVs
           /\ pass.status.phase = PvPoolPhaseScaling

\* The call of a position of the Reconcile leads to one of these positions.
After(pc) ==
    CASE pc = "getService" -> {"createService", "getStatefulset", "status"}
      [] pc = "createService" -> {"getStatefulset", "status"}
      [] pc = "getStatefulset" -> {"createStatefulset", "list", "status"}
      [] pc = "createStatefulset" -> {"list", "status"}
      [] pc = "list" -> {"collect", "update", "decommission", "status"}
      [] pc = "collect" -> {"collect", "update", "decommission", "status"}
      [] pc = "decommission" -> {"decommission", "decommissionCall", "status"}
      [] pc = "decommissionCall" -> {"decommission", "status"}
      [] pc = "update" -> {"status"}
      [] pc = "status" -> {"done"}
      [] OTHER -> {"done", "getService"}

\* C15: the steps of a pass run in the order service, statefulset, pods,
\* collector, engine, and a failed step ends the pass: after a failure the
\* only call left is the status update; a pass whose service step failed
\* created no statefulset, listed no pods and ran no engine; one whose
\* statefulset step or list failed collected nothing and ran no engine; the
\* engine runs only on a status that holds every listed pod, and without the
\* engine there is no statefulset update and no decommission call.
C15_StepsInOrder ==
    [][/\ Stepped => pass'.pc \in After(pass.pc)
       /\ pass'.err # NilErr => pass'.pc \in {"status", "done"}
       /\ pass'.err \in {ErrGetSrv, ErrCreateSrv}
              => (~pass'.stsCreate /\ pass'.list = <<>> /\ ~pass'.engine)
       /\ pass'.err \in {ErrGetSts, ErrCreateSts, ErrListPods}
              => (pass'.list = <<>> /\ ~pass'.engine)
       /\ pass'.engine
              => NamesOf(pass'.status.podsInfo) = Named(pass'.list)
       /\ Len(pass'.status.podsInfo) < Len(pass'.list)
              => /\ ~pass'.engine
                 /\ pass'.pc = "collect" \/ pass'.err = ErrAgentStatus
       /\ ~pass'.engine
              => /\ ~pass'.update
                 /\ pass'.calls = <<>>
                 /\ pass'.pc \notin {"update", "decommission", "decommissionCall"}
                 /\ (InPass' /\ pass'.pc \in {"status", "done"})
                        => pass'.err # NilErr
      ]_vars

\* The collector failed on the second of two listed pods of a statefulset
\* that the pass would otherwise have scaled down.
C15_Witness ==
    /\ CollectorFailed
    /\ Ended
    /\ Len(pass.list) >= 2
    /\ Len(pass.status.podsInfo) = 1
    /\ pass.numPVs < pass.replicas

\* C16: no step of a Reconcile lowers the replica count of the statefulset;
\* the only step that changes a statefulset is the update of the scale-up
\* branch, which sets the replica count to the desired size, at least the
\* replica count read in the pass; the scale-down branch issues no update.
C16_ReplicasNeverLowered ==
    [][Stepped =>
          /\ sts.exists => (sts'.exists /\ sts'.replicas >= sts.replicas)
          /\ (sts.exists /\ sts' # sts)
                 => /\ pass.pc = "update"
                    /\ sts' = [sts EXCEPT !.replicas = pass.numPVs]
          /\ (pass'.pc = "update" \/ pass'.update)
                 => /\ pass'.branch = "scale-up"
                    /\ pass'.updateTo = pass'.numPVs
                    /\ pass'.updateTo >= pass'.replicas
          /\ pass'.branch = "scale-down"
                 => (~pass'.update /\ pass'.pc # "update" /\ sts' = sts)
      ]_vars

\* A scale-down pass issued decommission calls and left the replica count
\* above the desired size.
C16_Witness ==
    /\ ScaleDownPass
    /\ Ended
    /\ pass.calls # <<>>
    /\ ~pass.update
    /\ sts.replicas = pass.replicas
    /\ sts.replicas > numPVs

\* C19: a pass whose phase is Ready read a replica count equal to the desired
\* size and counted as many Ready pods as the desired size.
C19_ReadyMeansSized ==
    (InPass /\ pass.status.phase = PvPoolPhaseReady)
        => /\ pass.engine
           /\ pass.replicas = pass.numPVs
           /\ ReadyCounted = pass.numPVs

\* C20: a pass whose engine read a replica count equal to the desired size
\* and counted another number of Ready pods sets phase Scaling and issues no
\* statefulset update.
C20_NoWriteWhenSized ==
    (EngineRan /\ pass.replicas = pass.numPVs /\ ReadyCounted # pass.numPVs)
        => /\ pass.status.phase = PvPoolPhaseScaling
           /\ ~pass.update
           /\ pass.pc # "update"

\* No call of the Reconcile failed.
CallsSucceed ==
    /\ pass.kind \in {"idle", "pass"}
    /\ pass.err = NilErr
    /\ pass.decErr = NilErr
    /\ ~WriteFailed

\* The pool exists, its desired size is at least the replica count, and the
\* pods that carry its label are as many as the desired size and all Ready.
ScaleUpSettled ==
    /\ poolExists
    /\ numPVs >= sts.replicas
    /\ Cardinality(Pods) = numPVs
    /\ \A p \in Pods : agent[p] = PvPodStatusReady

\* The stored phase is Ready and the statefulset has the desired size.
ReadyAtSize ==
    /\ poolExists
    /\ status.phase = PvPoolPhaseReady
    /\ sts.exists
    /\ sts.replicas = numPVs

\* C17: if from some point on the environment is settled for a scale-up
\* (ScaleUpSettled) and no call fails, then from some point on the stored
\* phase is Ready and the statefulset has the desired size.
C17_ScaleUpConverges ==
    <>[](ScaleUpSettled /\ CallsSucceed) => <>[]ReadyAtSize

\* The desired size is d, below the replica count.
Lowered(d) == poolExists /\ sts.exists /\ numPVs = d /\ d < sts.replicas

\* The desired size stays d, no call fails, and the replicas of the
\* statefulset are the only pods that carry the pool's label.
Held(d) ==
    /\ poolExists
    /\ numPVs = d
    /\ CallsSucceed
    /\ \A q \in StraySlots : agent[q] = Absent

\* C18: once the desired size is d, below the replica count, and stays d
\* with every call succeeding and no labelled pod beside the replicas, the
\* stored phase is eventually Ready with a statefulset of d replicas.
C18_ScaleDownConverges ==
    \A d \in 0..LiveSize :
        []((Lowered(d) /\ []Held(d)) => <>(ReadyAtSize /\ numPVs = d))

\* C21 as stated: the status update of a pass through the scale-down branch
\* that goes through leaves the stored phase as it was.
C21_Original ==
    [][(StepAt("status") /\ pass.branch = "scale-down" /\ pass'.statusWriteOk)
           => status'.phase = status.phase]_vars

\* C21 amended: the phase of a pass through the scale-down branch is Unknown,
\* the value the pass gave its fresh status, whatever phase was stored; the
\* pass issues the status update, and the stored phase is Unknown when the
\* update goes through and the stored status is untouched when it fails; a
\* 3-second retry is scheduled.
C21_Amended ==
    [][/\ pass'.branch = "scale-down"
           => pass'.status.phase = PvPoolPhaseUnknown
       /\ (StepAt("status") /\ pass.branch = "scale-down")
           => /\ pass'.statusWrite
              /\ status' = IF pass'.statusWriteOk THEN pass.status ELSE status
              /\ pass'.result.requeueAfter = 3
      ]_vars

\* A scale-down pass on a pool stored as Ready issued decommission calls and
\* stored phase Unknown.
C21_Witness ==
    /\ ScaleDownPass
    /\ Ended
    /\ pass.calls # <<>>
    /\ pass.statusWriteOk
    /\ pass.stored.phase = PvPoolPhaseReady
    /\ status.phase = PvPoolPhaseUnknown

\* C22 as stated: in a scale-down pass none of whose calls fails, a pod whose
\* collected state is Decommissioning is issued no decommission call, and a
\* pod of ordinal >= D whose collected state is another one is issued one.
C22_Original ==
    (ScaleDownPass /\ Ended /\ pass.decErr = NilErr) =>
        \A k \in 1..Len(pass.list) :
            ~InstanceNumber(pass.list[k]).err =>
                /\ CollectedState(k) = PvPodStatusDecommissioning
                       => Occurrences(pass.calls, AllNames[pass.list[k]]) = 0
                /\ (OrdinalAtLeast(pass.list[k], pass.numPVs)
                        /\ CollectedState(k) # PvPodStatusDecommissioning)
                       => Occurrences(pass.calls, AllNames[pass.list[k]]) = 1

\* C22 amended: the engine asks each pod it visits for its state again and
\* decides on that answer, the agent's state at that moment: when the call
\* goes through, the pod is issued a decommission call exactly when its
\* instance number, taken as a 32-bit integer, is >= D and the answer is not
\* Decommissioning, whatever state was collected for it; the status of the
\* pass keeps the collected state.
C22_Amended ==
    [][(StepAt("decommission") /\ pass'.decErr = NilErr) =>
          LET p == pass.list[pass.at]
          IN  /\ pass.status.podsInfo[pass.at].podName = AllNames[p]
              /\ pass'.pc = "decommissionCall"
                     <=> /\ Int32(InstanceNumber(p).num) >= pass.numPVs
                         /\ agent[p] # PvPodStatusDecommissioning
              /\ pass'.status = pass.status
      ]_vars

\* A pod collected as Decommissioning answered the engine with another state
\* and is about to be issued a decommission call.
C22_Witness ==
    /\ pass.pc = "decommissionCall"
    /\ CollectedState(pass.at) = PvPodStatusDecommissioning
    /\ agent[pass.list[pass.at]] = PvPodStatusUnknown

\* C23: a pass starts with an empty podsInfo and an empty countByState,
\* whatever status is stored; each call of the collector that goes through
\* adds the entry of the next listed pod with the state its agent answers,
\* and no other step changes the two; so the podsInfo holds the pods listed,
\* in list order, up to the first failing call, and the countByState the
\* tally of these entries and no other key.
C23_StatusFromObservation ==
    [][/\ StepIn
           => /\ pass'.status.podsInfo = <<>>
              /\ pass'.status.countByState = EmptyCount
       /\ StepAt("collect")
           => LET p == pass.list[Len(pass.status.podsInfo) + 1]
              IN  \/ /\ pass'.err = ErrAgentStatus
                     /\ pass'.status.podsInfo = pass.status.podsInfo
                  \/ /\ pass'.err = NilErr
                     /\ pass'.status.podsInfo =
                            Append(pass.status.podsInfo,
                                   [podName |-> AllNames[p],
                                    podStatus |-> agent[p]])
       /\ (Stepped /\ ~Returned /\ pass.pc # "collect")
           => /\ pass'.status.podsInfo = pass.status.podsInfo
              /\ pass'.status.countByState = pass.status.countByState
       /\ LET info == pass'.status.podsInfo
              count == pass'.status.countByState
          IN  /\ Len(info) <= Len(pass'.list)
              /\ NamesOf(info) = SubSeq(Named(pass'.list), 1, Len(info))
              /\ DOMAIN count = {info[k].podStatus : k \in 1..Len(info)}
              /\ \A st \in DOMAIN count : count[st] = EntriesWith(info, st)
      ]_vars

\* A pass whose engine ran on two pods replaced a stored status that held
\* other entries.
C23_Witness ==
    /\ PassEnded
    /\ pass.engine
    /\ Len(pass.status.podsInfo) = 2
    /\ pass.statusWriteOk
    /\ pass.stored.podsInfo # <<>>
    /\ pass.stored.podsInfo # pass.status.podsInfo
    /\ status = pass.status
====
